---- MODULE Spec2Model ----
(***************************************************************************)
(* Model of src/tools/tidy/src/style.rs: the style check run by `check`    *)
(* over every file the directory walker yields.  Text is modelled as       *)
(* sequences of one-character strings, so that split, contains,            *)
(* starts_with, ends_with and chars().count() are computed as the code     *)
(* computes them.                                                          *)
(***************************************************************************)
EXTENDS Integers, Sequences, FiniteSets, TLC

VARIABLES tree, fi, pc, bad, out, contents, filename, lines, i,
          skip_cr, skip_tab, skip_length, skip_end_whitespace, skip_copyright,
          leading_new_lines, trailing_new_lines

vars == <<tree, fi, pc, bad, out, contents, filename, lines, i,
          skip_cr, skip_tab, skip_length, skip_end_whitespace, skip_copyright,
          leading_new_lines, trailing_new_lines>>

(***************************************************************************)
(* Bounds of the model.                                                    *)
(***************************************************************************)
MaxSegs == 2
MaxAtoms == 5
MaxToks == 3
MaxFiles == 2

(***************************************************************************)
(* Program constants and string literals of style.rs.                      *)
(***************************************************************************)
COLS == 100

SlashDirective == <<"/","/"," ","i","g","n","o","r","e","-","t","i","d","y","-">>
HashDirective == <<"#"," ","i","g","n","o","r","e","-","t","i","d","y","-">>
CheckCr == <<"c","r">>
CheckTab == <<"t","a","b">>
CheckLinelength == <<"l","i","n","e","l","e","n","g","t","h">>
CheckEndWhitespace == <<"e","n","d","-","w","h","i","t","e","s","p","a","c","e">>
CheckCopyright == <<"c","o","p","y","r","i","g","h","t">>
Slash2 == <<"/","/">>
Slash3 == <<"/","/","/">>
Slash2Bang == <<"/","/","!">>
Http == <<"h","t","t","p",":","/","/">>
Https == <<"h","t","t","p","s",":","/","/">>
DotDotSlash == <<".",".","/">>
LabelEnd == <<"]",":">>
Todo == <<"T","O","D","O">>
SpaceXXX == <<" ","X","X","X">>
SlashCopyright == <<"/","/"," ","C","o","p","y","r","i","g","h","t">>
HashCopyright == <<"#"," ","C","o","p","y","r","i","g","h","t">>
Copyright == <<"C","o","p","y","r","i","g","h","t">>
RustDevelopers == <<"R","u","s","t"," ","D","e","v","e","l","o","p","e","r","s">>
RustProjectDevelopers == <<"R","u","s","t"," ","P","r","o","j","e","c","t"," ","D","e","v","e","l","o","p","e","r","s">>
\* U+0060 is written "grave": the lexer accepts no grave accent in a string.
FenceIgnore == <<"grave","grave","grave","i","g","n","o","r","e">>
FenceRustIgnore == <<"grave","grave","grave","r","u","s","t",",","i","g","n","o","r","e">>
LlvmUnreachable == <<"l","l","v","m","_","u","n","r","e","a","c","h","a","b","l","e">>
StyleRs == <<"s","t","y","l","e",".","r","s">>
DotCpp == <<".","c","p","p">>
DotHash == <<".","#">>
extensions == << <<".","r","s">>, <<".","p","y">>, <<".","j","s">>, <<".","s","h">>,
                 <<".","c">>, <<".","c","p","p">>, <<".","h">> >>

UNEXPLAINED_IGNORE_DOCTEST_INFO == <<"unexplained ignore doctest; try one">>
LLVM_UNREACHABLE_INFO == <<"C++ code used llvm_unreachable">>

(***************************************************************************)
(* str operations of the standard library, as the code uses them.          *)
(***************************************************************************)
starts_with(s, p) ==
    /\ Len(s) >= Len(p)
    /\ \A j \in 1..Len(p) : s[j] = p[j]

ends_with(s, p) ==
    /\ Len(s) >= Len(p)
    /\ \A j \in 1..Len(p) : s[Len(s) - Len(p) + j] = p[j]

contains(s, p) ==
    \E k \in 0..(Len(s) - Len(p)) : \A j \in 1..Len(p) : s[k + j] = p[j]

chars_count(s) == Len(s)

\* char::is_whitespace, on the characters the inputs of the model use.
is_whitespace(c) == c \in {" ", "\t", "\n", "\r"}

\* Mutant: the segments as str::lines() gives them, with no segment after
\* the last occurrence of c and none for the empty string.
RECURSIVE split_like_lines(_, _)
split_like_lines(s, c) ==
    IF s = <<>> THEN <<>>
    ELSE IF \E k \in 1..Len(s) : s[k] = c
    THEN LET k == CHOOSE k \in 1..Len(s) :
                      s[k] = c /\ \A j \in 1..(k - 1) : s[j] # c
         IN  <<SubSeq(s, 1, k - 1)>> \o split_like_lines(SubSeq(s, k + 1, Len(s)), c)
    ELSE <<s>>

\* str::split(c): the segments between the occurrences of c; always at
\* least one segment, the empty string giving one empty segment.
RECURSIVE split(_, _)
split(s, c) ==
    IF \E k \in 1..Len(s) : s[k] = c
    THEN LET k == CHOOSE k \in 1..Len(s) :
                      s[k] = c /\ \A j \in 1..(k - 1) : s[j] # c
         IN  <<SubSeq(s, 1, k - 1)>> \o split(SubSeq(s, k + 1, Len(s)), c)
    ELSE <<s>>

\* str::split_whitespace: the maximal runs of non-whitespace characters.
RECURSIVE split_whitespace(_)
split_whitespace(s) ==
    IF \A k \in 1..Len(s) : is_whitespace(s[k])
    THEN <<>>
    ELSE LET b == CHOOSE k \in 1..Len(s) :
                      ~is_whitespace(s[k]) /\ \A j \in 1..(k - 1) : is_whitespace(s[j])
             e == IF \E k \in b..Len(s) : is_whitespace(s[k])
                  THEN CHOOSE k \in b..Len(s) :
                           is_whitespace(s[k]) /\ \A j \in b..(k - 1) : ~is_whitespace(s[j])
                  ELSE Len(s) + 1
         IN  <<SubSeq(s, b, e - 1)>> \o split_whitespace(SubSeq(s, e, Len(s)))

(***************************************************************************)
(* line_is_url and long_line_is_ok.                                        *)
(***************************************************************************)
LIUState == {"EXP_COMMENT_START", "EXP_LINK_LABEL_OR_URL", "EXP_URL", "EXP_END"}

\* Mutant: the two URL arms share one test, so `../` is a URL right after
\* the comment marker too.
liu_match_relative_anywhere(state, tok) ==
    CASE state = "EXP_COMMENT_START" /\ tok \in {Slash2, Slash3, Slash2Bang}
             -> "EXP_LINK_LABEL_OR_URL"
      [] state = "EXP_LINK_LABEL_OR_URL"
           /\ Len(tok) >= 4 /\ starts_with(tok, <<"[">>) /\ ends_with(tok, LabelEnd)
             -> "EXP_URL"
      [] state \in {"EXP_LINK_LABEL_OR_URL", "EXP_URL"}
           /\ ~(Len(tok) >= 4 /\ starts_with(tok, <<"[">>) /\ ends_with(tok, LabelEnd))
           /\ (starts_with(tok, Http) \/ starts_with(tok, Https)
               \/ starts_with(tok, DotDotSlash))
             -> "EXP_END"
      [] OTHER -> "return false"

\* One arm of the match in line_is_url: the next state, or "return false".
liu_match(state, tok) ==
    CASE state = "EXP_COMMENT_START" /\ tok \in {Slash2, Slash3, Slash2Bang}
             -> "EXP_LINK_LABEL_OR_URL"
      [] state = "EXP_LINK_LABEL_OR_URL"
           /\ Len(tok) >= 4 /\ starts_with(tok, <<"[">>) /\ ends_with(tok, LabelEnd)
             -> "EXP_URL"
      [] state = "EXP_LINK_LABEL_OR_URL"
           /\ ~(Len(tok) >= 4 /\ starts_with(tok, <<"[">>) /\ ends_with(tok, LabelEnd))
           /\ (starts_with(tok, Http) \/ starts_with(tok, Https))
             -> "EXP_END"
      [] state = "EXP_URL"
           /\ (starts_with(tok, Http) \/ starts_with(tok, Https)
               \/ starts_with(tok, DotDotSlash))
             -> "EXP_END"
      [] OTHER -> "return false"

RECURSIVE liu_loop(_, _)
liu_loop(state, toks) ==
    IF toks = <<>>
    THEN state = "EXP_END"
    ELSE LET next == liu_match(state, Head(toks))
         IN  IF next = "return false" THEN FALSE ELSE liu_loop(next, Tail(toks))

line_is_url(line) == liu_loop("EXP_COMMENT_START", split_whitespace(line))

long_line_is_ok(line) == IF line_is_url(line) THEN TRUE ELSE FALSE

(***************************************************************************)
(* Directive, contains_ignore_directive, suppressible_tidy_err.            *)
(***************************************************************************)
Deny == <<"Deny">>
Ignore(b) == <<"Ignore", b>>
Directive == {Deny, Ignore(FALSE), Ignore(TRUE)}

\* Mutant: only the `//` form of the directive is recognised.
contains_ignore_directive_slash_only(c, check) ==
    IF contains(c, SlashDirective \o check) THEN Ignore(FALSE) ELSE Deny

contains_ignore_directive(c, check) ==
    IF contains(c, SlashDirective \o check) \/ contains(c, HashDirective \o check)
    THEN Ignore(FALSE)
    ELSE Deny

\* tidy_error!(bad, ...): sets the flag and prints the message.  The frame s
\* holds the flag, the printed diagnostics and the closure's locals.
tidy_error(s, path, lineno, msg) ==
    [s EXCEPT !.bad = TRUE,
              !.out = Append(@, [path |-> path, line |-> lineno, msg |-> msg])]

\* Mutant: the index of the line is printed, not the index plus one.
err_zero_based(s, path, idx, msg) == tidy_error(s, path, idx, msg)

\* Mutant: the closure prints the path without the line number.
err_no_line(s, path, idx, msg) == tidy_error(s, path, 0, msg)

\* The closure err of the line loop: a diagnostic at line i + 1.
err(s, path, idx, msg) == tidy_error(s, path, idx + 1, msg)

\* Mutant: a suppressed hit still sets the flag.
suppressible_tidy_err_sets_bad(s, path, idx, skip, msg) ==
    IF s[skip] = Deny
    THEN err(s, path, idx, msg)
    ELSE [s EXCEPT ![skip] = Ignore(TRUE), !.bad = TRUE]

\* Mutant: a suppressed hit does not record that the directive was needed.
suppressible_tidy_err_no_flip(s, path, idx, skip, msg) ==
    IF s[skip] = Deny THEN err(s, path, idx, msg) ELSE s

\* Mutant: a suppressed hit toggles the flag of the status.
suppressible_tidy_err_toggle(s, path, idx, skip, msg) ==
    IF s[skip] = Deny
    THEN err(s, path, idx, msg)
    ELSE [s EXCEPT ![skip] = Ignore(~s[skip][2])]

suppressible_tidy_err(s, path, idx, skip, msg) ==
    IF s[skip] = Deny
    THEN err(s, path, idx, msg)
    ELSE [s EXCEPT ![skip] = Ignore(TRUE)]

(***************************************************************************)
(* The rule conditions of the line loop.                                   *)
(***************************************************************************)
\* Mutant: the limit is off by one.
cond_length_off_by_one(line) == chars_count(line) >= COLS /\ ~long_line_is_ok(line)

cond_length(line) == chars_count(line) > COLS /\ ~long_line_is_ok(line)

cond_tab(line) == contains(line, <<"\t">>)

cond_end_whitespace(line) == ends_with(line, <<" ">>) \/ ends_with(line, <<"\t">>)

cond_cr(line) == contains(line, <<"\r">>)

\* Mutant: style.rs is not exempt from the TODO rule.
cond_todo_no_exemption(fname, line) == contains(line, Todo)

cond_todo(fname, line) == fname # StyleRs /\ contains(line, Todo)

cond_xxx(fname, line) ==
    fname # StyleRs /\ contains(line, Slash2) /\ contains(line, SpaceXXX)

cond_copyright(line) ==
    /\ \/ starts_with(line, SlashCopyright)
       \/ starts_with(line, HashCopyright)
       \/ starts_with(line, Copyright)
    /\ \/ contains(line, RustDevelopers)
       \/ contains(line, RustProjectDevelopers)

cond_ignore_doctest(line) ==
    ends_with(line, FenceIgnore) \/ ends_with(line, FenceRustIgnore)

cond_llvm_unreachable(fname, line) ==
    ends_with(fname, DotCpp) /\ contains(line, LlvmUnreachable)

\* The messages of the diagnostics; format! arguments are kept as fields.
MsgLength == <<"line longer than {} chars", COLS>>
MsgTab == <<"tab character">>
MsgEndWhitespace == <<"trailing whitespace">>
MsgCr == <<"CR character">>
MsgTodo == <<"TODO is deprecated; use FIXME">>
MsgXxx == <<"XXX is deprecated; use FIXME">>
MsgCopyright ==
    <<"copyright notices attributed to the Rust Project Developers are deprecated">>
MsgEmptyFile == <<"empty file">>
MsgLeadingNewline == <<"leading newline">>
MsgMissingNewline == <<"missing trailing newline">>
MsgTooManyNewlines(n) == <<"too many trailing newlines ({})", n>>
MsgUnnecessaryCr == <<"ignoring CR characters unnecessarily">>
MsgUnnecessaryTab == <<"ignoring tab characters unnecessarily">>
MsgUnnecessaryLength == <<"ignoring line length unnecessarily">>
MsgUnnecessaryEndWhitespace == <<"ignoring trailing whitespace unnecessarily">>
MsgUnnecessaryCopyright == <<"ignoring copyright unnecessarily">>

\* Line number of a file-level diagnostic, which carries none.
NoLine == 0

\* The current values of the flag, the sink and the five statuses.
Frame ==
    [bad |-> bad, out |-> out, skip_cr |-> skip_cr, skip_tab |-> skip_tab,
     skip_length |-> skip_length, skip_end_whitespace |-> skip_end_whitespace,
     skip_copyright |-> skip_copyright]

\* The rules of one iteration of the line loop, one operator per `if`.
rule_length(s, path, idx, line) ==
    IF cond_length(line)
    THEN suppressible_tidy_err(s, path, idx, "skip_length", MsgLength)
    ELSE s

rule_tab(s, path, idx, line) ==
    IF cond_tab(line)
    THEN suppressible_tidy_err(s, path, idx, "skip_tab", MsgTab)
    ELSE s

rule_end_whitespace(s, path, idx, line) ==
    IF cond_end_whitespace(line)
    THEN suppressible_tidy_err(s, path, idx, "skip_end_whitespace", MsgEndWhitespace)
    ELSE s

rule_cr(s, path, idx, line) ==
    IF cond_cr(line)
    THEN suppressible_tidy_err(s, path, idx, "skip_cr", MsgCr)
    ELSE s

rule_todo(s, path, fname, idx, line) ==
    IF cond_todo(fname, line) THEN err(s, path, idx, MsgTodo) ELSE s

rule_xxx(s, path, fname, idx, line) ==
    IF cond_xxx(fname, line) THEN err(s, path, idx, MsgXxx) ELSE s

rule_copyright(s, path, idx, line) ==
    IF cond_copyright(line)
    THEN suppressible_tidy_err(s, path, idx, "skip_copyright", MsgCopyright)
    ELSE s

\* Mutant: the doctest rule goes through the suppression protocol.
rule_ignore_doctest_suppressible(s, path, idx, line) ==
    IF cond_ignore_doctest(line)
    THEN suppressible_tidy_err(s, path, idx, "skip_length",
                               UNEXPLAINED_IGNORE_DOCTEST_INFO)
    ELSE s

rule_ignore_doctest(s, path, idx, line) ==
    IF cond_ignore_doctest(line)
    THEN err(s, path, idx, UNEXPLAINED_IGNORE_DOCTEST_INFO)
    ELSE s

rule_llvm_unreachable(s, path, fname, idx, line) ==
    IF cond_llvm_unreachable(fname, line)
    THEN err(s, path, idx, LLVM_UNREACHABLE_INFO)
    ELSE s

\* Mutant: the trailing-whitespace rule runs before the tab rule.
scan_rules_whitespace_first(s0, path, fname, idx, line) ==
    LET s1 == rule_length(s0, path, idx, line)
        s2 == rule_end_whitespace(s1, path, idx, line)
        s3 == rule_tab(s2, path, idx, line)
        s4 == rule_cr(s3, path, idx, line)
        s5 == rule_todo(s4, path, fname, idx, line)
        s6 == rule_xxx(s5, path, fname, idx, line)
        s7 == rule_copyright(s6, path, idx, line)
        s8 == rule_ignore_doctest(s7, path, idx, line)
        s9 == rule_llvm_unreachable(s8, path, fname, idx, line)
    IN  s9

\* The nine rules in the order of the code.
scan_rules(s0, path, fname, idx, line) ==
    LET s1 == rule_length(s0, path, idx, line)
        s2 == rule_tab(s1, path, idx, line)
        s3 == rule_end_whitespace(s2, path, idx, line)
        s4 == rule_cr(s3, path, idx, line)
        s5 == rule_todo(s4, path, fname, idx, line)
        s6 == rule_xxx(s5, path, fname, idx, line)
        s7 == rule_copyright(s6, path, idx, line)
        s8 == rule_ignore_doctest(s7, path, idx, line)
        s9 == rule_llvm_unreachable(s8, path, fname, idx, line)
    IN  s9

\* Mutant: any empty line marks the leading flag.
track_leading_any_line(line, idx, leading) ==
    IF line = <<>> THEN TRUE ELSE leading

\* The empty-line tracking at the end of an iteration.
track_leading(line, idx, leading) ==
    IF line = <<>> /\ idx = 0 THEN TRUE ELSE leading

\* Mutant: an empty first line marks the leading flag and is not counted.
track_trailing_skip_first(line, idx, trailing) ==
    IF line = <<>> THEN (IF idx = 0 THEN trailing ELSE trailing + 1) ELSE 0

\* Mutant: a non-empty line does not reset the counter.
track_trailing_never_reset(line, idx, trailing) ==
    IF line = <<>> THEN trailing + 1 ELSE trailing

track_trailing(line, idx, trailing) ==
    IF line = <<>> THEN trailing + 1 ELSE 0

\* Mutant: the empty-file check is lost.
empty_file_check_lost(s, path, data) == s

\* The empty-file check before the line loop.
empty_file_check(s, path, data) ==
    IF data = <<>> THEN tidy_error(s, path, NoLine, MsgEmptyFile) ELSE s

\* The file-level checks after the line loop.
newline_checks(s, path, leading, trailing) ==
    LET s1 == IF leading THEN tidy_error(s, path, NoLine, MsgLeadingNewline) ELSE s
    IN  CASE trailing = 0 -> tidy_error(s1, path, NoLine, MsgMissingNewline)
          [] trailing = 1 -> s1
          [] OTHER -> tidy_error(s1, path, NoLine, MsgTooManyNewlines(trailing))

unnecessary_check(s, path, skip, msg) ==
    IF s[skip] = Ignore(FALSE) THEN tidy_error(s, path, NoLine, msg) ELSE s

eof_checks(s0, path, leading, trailing) ==
    LET s1 == newline_checks(s0, path, leading, trailing)
        s2 == unnecessary_check(s1, path, "skip_cr", MsgUnnecessaryCr)
        s3 == unnecessary_check(s2, path, "skip_tab", MsgUnnecessaryTab)
        s4 == unnecessary_check(s3, path, "skip_length", MsgUnnecessaryLength)
        s5 == unnecessary_check(s4, path, "skip_end_whitespace",
                                MsgUnnecessaryEndWhitespace)
        s6 == unnecessary_check(s5, path, "skip_copyright", MsgUnnecessaryCopyright)
    IN  s6

\* Mutant: the filter forgets the editor lock files.
is_checked_lock_files_too(fname) ==
    ~(\A e \in 1..Len(extensions) : ~ends_with(fname, extensions[e]))

\* The file filter at the head of the closure.
is_checked(fname) ==
    ~(\/ \A e \in 1..Len(extensions) : ~ends_with(fname, extensions[e])
      \/ starts_with(fname, DotHash))

(***************************************************************************)
(* Actions.  The walker yields tree[fi]; the closure runs on it.           *)
(***************************************************************************)
\* The closure returns at once for a file the filter rejects.
SkipFile ==
    /\ pc = "walk"
    /\ fi <= Len(tree)
    /\ ~is_checked(tree[fi].name)
    /\ fi' = fi + 1
    /\ filename' = tree[fi].name
    /\ UNCHANGED <<tree, pc, bad, out, contents, lines, i, skip_cr, skip_tab,
                   skip_length, skip_end_whitespace, skip_copyright,
                   leading_new_lines, trailing_new_lines>>

\* t!(File::open(..).read_to_string(..)) fails: the run is aborted.
ReadFail ==
    /\ pc = "walk"
    /\ fi <= Len(tree)
    /\ is_checked(tree[fi].name)
    /\ ~tree[fi].readable
    /\ filename' = tree[fi].name
    /\ contents' = <<>>
    /\ pc' = "panic"
    /\ UNCHANGED <<tree, fi, bad, out, lines, i, skip_cr, skip_tab,
                   skip_length, skip_end_whitespace, skip_copyright,
                   leading_new_lines, trailing_new_lines>>

\* Mutant: the tab status is declared outside the closure and outlives the
\* file once a directive has been seen.
OpenFile_keeps_tab_status ==
    /\ pc = "walk"
    /\ fi <= Len(tree)
    /\ is_checked(tree[fi].name)
    /\ tree[fi].readable
    /\ LET data == tree[fi].data
           s == empty_file_check(Frame, fi, data)
       IN  /\ filename' = tree[fi].name
           /\ contents' = data
           /\ bad' = s.bad
           /\ out' = s.out
           /\ skip_cr' = contains_ignore_directive(data, CheckCr)
           /\ skip_tab' = IF skip_tab = Deny
                          THEN contains_ignore_directive(data, CheckTab)
                          ELSE skip_tab
           /\ skip_length' = contains_ignore_directive(data, CheckLinelength)
           /\ skip_end_whitespace' = contains_ignore_directive(data, CheckEndWhitespace)
           /\ skip_copyright' = contains_ignore_directive(data, CheckCopyright)
           /\ leading_new_lines' = FALSE
           /\ trailing_new_lines' = 0
           /\ lines' = split(data, "\n")
           /\ i' = 0
    /\ pc' = "scan"
    /\ UNCHANGED <<tree, fi>>

\* The closure up to the line loop: read, empty-file check, statuses.
OpenFile ==
    /\ pc = "walk"
    /\ fi <= Len(tree)
    /\ is_checked(tree[fi].name)
    /\ tree[fi].readable
    /\ LET data == tree[fi].data
           s == empty_file_check(Frame, fi, data)
       IN  /\ filename' = tree[fi].name
           /\ contents' = data
           /\ bad' = s.bad
           /\ out' = s.out
           /\ skip_cr' = contains_ignore_directive(data, CheckCr)
           /\ skip_tab' = contains_ignore_directive(data, CheckTab)
           /\ skip_length' = contains_ignore_directive(data, CheckLinelength)
           /\ skip_end_whitespace' = contains_ignore_directive(data, CheckEndWhitespace)
           /\ skip_copyright' = contains_ignore_directive(data, CheckCopyright)
           /\ leading_new_lines' = FALSE
           /\ trailing_new_lines' = 0
           /\ lines' = split(data, "\n")
           /\ i' = 0
    /\ pc' = "scan"
    /\ UNCHANGED <<tree, fi>>

\* Mutant: the first diagnostic of a file breaks out of the line loop.
ScanLine_breaks_on_diagnostic ==
    /\ pc = "scan"
    /\ i < Len(lines)
    /\ LET line == lines[i + 1]
           s == scan_rules(Frame, fi, filename, i, line)
       IN  /\ bad' = s.bad
           /\ out' = s.out
           /\ skip_cr' = s.skip_cr
           /\ skip_tab' = s.skip_tab
           /\ skip_length' = s.skip_length
           /\ skip_end_whitespace' = s.skip_end_whitespace
           /\ skip_copyright' = s.skip_copyright
           /\ leading_new_lines' = track_leading(line, i, leading_new_lines)
           /\ trailing_new_lines' = track_trailing(line, i, trailing_new_lines)
           /\ i' = IF Len(s.out) > Len(out) THEN Len(lines) ELSE i + 1
    /\ UNCHANGED <<tree, fi, pc, contents, filename, lines>>

\* One iteration of the line loop.
ScanLine ==
    /\ pc = "scan"
    /\ i < Len(lines)
    /\ LET line == lines[i + 1]
           s == scan_rules(Frame, fi, filename, i, line)
       IN  /\ bad' = s.bad
           /\ out' = s.out
           /\ skip_cr' = s.skip_cr
           /\ skip_tab' = s.skip_tab
           /\ skip_length' = s.skip_length
           /\ skip_end_whitespace' = s.skip_end_whitespace
           /\ skip_copyright' = s.skip_copyright
           /\ leading_new_lines' = track_leading(line, i, leading_new_lines)
           /\ trailing_new_lines' = track_trailing(line, i, trailing_new_lines)
    /\ i' = i + 1
    /\ UNCHANGED <<tree, fi, pc, contents, filename, lines>>

\* The file-level checks; the closure returns to the walker.
EndOfFile ==
    /\ pc = "scan"
    /\ i = Len(lines)
    /\ LET s == eof_checks(Frame, fi, leading_new_lines, trailing_new_lines)
       IN  /\ bad' = s.bad
           /\ out' = s.out
    /\ fi' = fi + 1
    /\ pc' = "walk"
    /\ UNCHANGED <<tree, contents, filename, lines, i, skip_cr, skip_tab,
                   skip_length, skip_end_whitespace, skip_copyright,
                   leading_new_lines, trailing_new_lines>>

\* The walker has no more files: check returns.
Return ==
    /\ pc = "walk"
    /\ fi > Len(tree)
    /\ pc' = "done"
    /\ UNCHANGED <<tree, fi, bad, out, contents, filename, lines, i, skip_cr,
                   skip_tab, skip_length, skip_end_whitespace, skip_copyright,
                   leading_new_lines, trailing_new_lines>>

Next == SkipFile \/ ReadFail \/ OpenFile \/ ScanLine \/ EndOfFile \/ Return

(***************************************************************************)
(* The inputs: the trees (sequences of files) the walker may yield.        *)
(***************************************************************************)
Pad(n) == [k \in 1..n |-> "x"]

RECURSIVE Join(_, _)
Join(segs, sep) ==
    IF Len(segs) = 0 THEN <<>>
    ELSE IF Len(segs) = 1 THEN <<>> \o segs[1]
    ELSE segs[1] \o sep \o Join(Tail(segs), sep)

SeqsUpTo(S, lo, hi) == UNION {[1..k -> S] : k \in lo..hi}

NameRs == <<"a",".","r","s">>
NameCpp == <<"a",".","c","p","p">>
NameTxt == <<"a",".","t","x","t">>
NameSwap == <<".","#","a",".","r","s">>

File(n, d) == [name |-> n, data |-> d, readable |-> TRUE]

LineFoo == <<"f","o","o">>
LineTab == <<"\t","b","a","r">>
LineEndSpace == <<"x"," ">>
LineEndTab == <<"x","\t">>
LineCr == <<"x","\r">>
LineLong == Pad(COLS + 1)
LineCopyright == Copyright \o <<" ">> \o RustDevelopers

\* Lines of the suppression family: one hit per suppressible check, the
\* directives of the five checks, and lines with no hit.
GSeg ==
    {<<>>, LineFoo, LineTab, LineEndSpace, LineCr, LineLong, LineCopyright,
     SlashDirective \o CheckTab, HashDirective \o CheckTab,
     SlashDirective \o CheckCr, HashDirective \o CheckLinelength,
     SlashDirective \o CheckLinelength, HashDirective \o CheckEndWhitespace,
     SlashDirective \o CheckCopyright}

GFiles == {File(NameRs, Join(segs, <<"\n">>)) : segs \in SeqsUpTo(GSeg, 1, MaxSegs)}

\* The newline family: contents made of a few atoms, the empty content and
\* the content "foo\n\tbar\n\n" included.
NAtom == {LineFoo, LineTab, <<"\n">>}

NFiles == {File(NameRs, Join(atoms, <<>>)) : atoms \in SeqsUpTo(NAtom, 0, MaxAtoms)}

\* The URL family: one line of tokens separated by whitespace.
UTok ==
    {Slash2, <<"[","a","]",":">>, <<"[","]",":">>,
     Https \o Pad(COLS), DotDotSlash \o Pad(COLS), <<"x">>}

\* The token sequences: any tokens, or one of the other two comment markers
\* followed by any tokens.
UToks ==
    SeqsUpTo(UTok, 0, MaxToks)
        \cup {<<m>> \o toks : m \in {Slash3, Slash2Bang},
                               toks \in SeqsUpTo(UTok, 0, MaxToks - 1)}

\* Lines with other whitespace (leading blanks, a tab separator, CR at the
\* end), with `http://`, and of 100 and 101 characters.
ULines ==
    {<<" "," ">> \o Slash2 \o <<"\t">> \o Https \o Pad(COLS) \o <<"\r">>,
     Slash2 \o <<" ">> \o Https \o Pad(COLS) \o <<" ","\t","x">>,
     Slash2 \o <<" ">> \o Http \o Pad(COLS - 9),
     <<"x"," ">> \o Http \o Pad(COLS - 9),
     Pad(COLS), Pad(COLS + 1)}

UFiles ==
    {File(NameRs, Join(toks, <<" ">>) \o <<"\n">>) : toks \in UToks}
        \cup {File(NameRs, l \o <<"\n">>) : l \in ULines}

\* The doctest family: every combination of the five directives, then a
\* line ending in an ignore fence, under each kind of checked name.
AllChecks == {CheckCr, CheckTab, CheckLinelength, CheckEndWhitespace, CheckCopyright}

RECURSIVE DirectiveLines(_)
DirectiveLines(cs) ==
    IF cs = {} THEN <<>>
    ELSE LET c == CHOOSE c \in cs : TRUE
         IN  SlashDirective \o c \o <<"\n">> \o DirectiveLines(cs \ {c})

IFiles ==
    {File(n, DirectiveLines(cs) \o l \o <<"\n">>) :
        n \in {NameRs, StyleRs, NameCpp},
        cs \in SUBSET AllChecks,
        l \in {FenceIgnore, <<"/","/"," ">> \o FenceRustIgnore, <<"\t">> \o FenceIgnore,
               LlvmUnreachable \o <<" ">> \o Todo \o <<" ">> \o Slash2 \o SpaceXXX}}

\* The files of the runs over several files.
SmallFiles ==
    {File(NameRs, <<>>),
     File(NameRs, LineFoo \o <<"\n">>),
     File(NameRs, LineTab \o <<"\n">>),
     File(NameRs, SlashDirective \o CheckTab \o <<"\n">> \o LineTab \o <<"\n">>),
     File(NameTxt, LineTab \o <<"\n">>),
     File(NameSwap, LineTab \o <<"\n">>),
     [name |-> NameRs, data |-> LineFoo \o <<"\n">>, readable |-> FALSE]}

\* The TODO/XXX family: with no directive or all five, a line with the
\* markers of the two rules in each arrangement, under style.rs and other
\* names.
NameMyStyle == <<"m","y">> \o StyleRs

TLines ==
    {Todo, Slash2 \o SpaceXXX, SpaceXXX \o <<" ">> \o Slash2, Slash2 \o <<"X","X","X">>,
     SpaceXXX, Slash2, Slash2 \o SpaceXXX \o <<" ">> \o Todo \o <<"\t">>}

TFiles ==
    {File(n, DirectiveLines(cs) \o l \o <<"\n">>) :
        n \in {NameRs, StyleRs, NameMyStyle}, cs \in {{}, AllChecks}, l \in TLines}

\* The status family: for each suppressible check a file with two hits of
\* the check, with and without its directive on the first line.
DHits ==
    {<<CheckCr, LineCr>>, <<CheckTab, LineTab>>, <<CheckLinelength, LineLong>>,
     <<CheckEndWhitespace, LineEndSpace>>, <<CheckCopyright, LineCopyright>>}

DFiles ==
    {File(NameRs, Join(<<d \o h[1], h[2], LineFoo, h[2]>>, <<"\n">>) \o <<"\n">>) :
        h \in DHits, d \in {SlashDirective, HashDirective, <<"/","/"," ">>}}

\* The many-rules family: a line that satisfies the conditions of eight
\* rules at once, with several tabs and CRs, ending in a tab or in a fence.
BigLine ==
    Copyright \o <<" ">> \o RustDevelopers \o <<" ">> \o Todo \o <<" ">> \o Slash2
        \o SpaceXXX \o <<" ">> \o LlvmUnreachable \o <<"\r","\t","\r","\t">> \o Pad(COLS)

RFiles ==
    {File(n, DirectiveLines(cs) \o l \o <<"\n">>) :
        n \in {NameRs, NameCpp},
        cs \in {{}, {CheckTab, CheckCopyright}},
        l \in {BigLine \o <<"\t">>, BigLine \o <<" ">> \o FenceIgnore, LineEndTab}}

\* The filter family: a checked file, then a file under each kind of name.
FNames ==
    {NameRs, NameCpp, NameTxt, NameSwap, StyleRs,
     <<"a",".","p","y">>, <<"a",".","j","s">>, <<"a",".","s","h">>,
     <<"a",".","c">>, <<"a",".","h">>, <<".","r","s">>, <<"r","s">>,
     <<"a",".","r","s","x">>, <<"a",".","r","s",".","#">>,
     <<"#",".","a",".","r","s">>, <<".","#","a",".","h">>, <<".","#">>, <<"a",".","c","c">>}

FTrees == {<<File(NameRs, LineFoo \o <<"\n">>), File(n, LineTab \o <<"\n">>)>> : n \in FNames}

\* The runs: one file of a family with the flag clear on entry, or several
\* small files with the flag as an earlier check of the caller left it.
Runs ==
    ({<<f>> : f \in GFiles \cup NFiles \cup UFiles \cup IFiles \cup TFiles \cup DFiles
                    \cup RFiles}
        \X {FALSE})
        \cup ((SeqsUpTo(SmallFiles, 0, MaxFiles) \cup FTrees) \X BOOLEAN)

Init ==
    /\ \E r \in Runs : tree = r[1] /\ bad = r[2]
    /\ fi = 1
    /\ pc = "walk"
    /\ out = <<>>
    /\ contents = <<>>
    /\ filename = <<>>
    /\ lines = <<>>
    /\ i = 0
    /\ skip_cr = Deny
    /\ skip_tab = Deny
    /\ skip_length = Deny
    /\ skip_end_whitespace = Deny
    /\ skip_copyright = Deny
    /\ leading_new_lines = FALSE
    /\ trailing_new_lines = 0

Spec == Init /\ [][Next]_vars

\* The position of the run: the file the walker is at, the place in the
\* closure and the index of the line loop.
Pos == <<fi, pc, i>>

\* Next seen through the position alone: the guards of the six actions and
\* what each does to the position.  It is enabled exactly when Next is.
Advance ==
    \/ /\ pc = "walk" /\ fi <= Len(tree) /\ ~is_checked(tree[fi].name)
       /\ fi' = fi + 1 /\ pc' = pc /\ i' = i
    \/ /\ pc = "walk" /\ fi <= Len(tree) /\ is_checked(tree[fi].name)
       /\ ~tree[fi].readable
       /\ fi' = fi /\ pc' = "panic" /\ i' = i
    \/ /\ pc = "walk" /\ fi <= Len(tree) /\ is_checked(tree[fi].name)
       /\ tree[fi].readable
       /\ fi' = fi /\ pc' = "scan" /\ i' = 0
    \/ /\ pc = "scan" /\ i < Len(lines)
       /\ fi' = fi /\ pc' = pc /\ i' = i + 1
    \/ /\ pc = "scan" /\ i = Len(lines)
       /\ fi' = fi + 1 /\ pc' = "walk" /\ i' = i
    \/ /\ pc = "walk" /\ fi > Len(tree)
       /\ fi' = fi /\ pc' = "done" /\ i' = i

\* The closure is sequential code that the walker calls once per file: a
\* step that can be taken is taken.
FairSpec == Spec /\ WF_Pos(Advance)

(***************************************************************************)
(* Vocabulary of the properties.                                           *)
(***************************************************************************)
\* The files the closure has run to completion on.
Completed == {p \in 1..(fi - 1) : is_checked(tree[p].name) /\ tree[p].readable}

LinesOf(p) == split(tree[p].data, "\n")

\* Number of diagnostics of file p at line l with message m.
Count(p, l, m) ==
    Cardinality({k \in 1..Len(out) : out[k] = [path |-> p, line |-> l, msg |-> m]})

\* Number of diagnostics of file p with message m, at any line or none.
CountMsg(p, m) ==
    Cardinality({k \in 1..Len(out) : out[k].path = p /\ out[k].msg = m})

\* The diagnostics of file p, in the order of emission.
DiagsOf(p) == SelectSeq(out, LAMBDA d : d.path = p)

HasDirective(data, check) ==
    contains(data, SlashDirective \o check) \/ contains(data, HashDirective \o check)

\* The five suppressible checks: name, line message, end-of-file message.
Suppressible ==
    {[name |-> CheckCr, msg |-> MsgCr, unnecessary |-> MsgUnnecessaryCr],
     [name |-> CheckTab, msg |-> MsgTab, unnecessary |-> MsgUnnecessaryTab],
     [name |-> CheckLinelength, msg |-> MsgLength, unnecessary |-> MsgUnnecessaryLength],
     [name |-> CheckEndWhitespace, msg |-> MsgEndWhitespace,
      unnecessary |-> MsgUnnecessaryEndWhitespace],
     [name |-> CheckCopyright, msg |-> MsgCopyright,
      unnecessary |-> MsgUnnecessaryCopyright]}

\* The violation condition of a suppressible check on a line.
Hit(c, line) ==
    CASE c.name = CheckCr -> cond_cr(line)
      [] c.name = CheckTab -> cond_tab(line)
      [] c.name = CheckLinelength -> cond_length(line)
      [] c.name = CheckEndWhitespace -> cond_end_whitespace(line)
      [] c.name = CheckCopyright -> cond_copyright(line)

NoHit(c, ls) == \A k \in 1..Len(ls) : ~Hit(c, ls[k])

\* The closure is in the line loop of file fi with lines still to scan.
Scanning == pc = "scan" /\ i < Len(lines)

(***************************************************************************)
(* C1: for every checked file and each of the five suppressible checks,    *)
(* "ignoring <check> unnecessarily" is reported exactly once, and only     *)
(* after the last line has been scanned, if and only if the contents hold  *)
(* the directive of the check (either form) and no line satisfies the      *)
(* check's condition; otherwise it is not reported.  A file with the tab   *)
(* directive reports no "tab character".                                   *)
(***************************************************************************)
C1_UnnecessaryIffUnused ==
    /\ \A p \in Completed : \A c \in Suppressible :
          LET unused == HasDirective(tree[p].data, c.name) /\ NoHit(c, LinesOf(p))
          IN  /\ CountMsg(p, c.unnecessary) = IF unused THEN 1 ELSE 0
              /\ Count(p, NoLine, c.unnecessary) = CountMsg(p, c.unnecessary)
              /\ unused => CountMsg(p, c.msg) = 0
    /\ pc = "scan" => \A c \in Suppressible : CountMsg(fi, c.unnecessary) = 0

C1_Witness ==
    \E p \in Completed :
        /\ contains(tree[p].data, SlashDirective \o CheckTab)
        /\ ~contains(tree[p].data, <<"\t">>)
        /\ CountMsg(p, MsgUnnecessaryTab) = 1
        /\ CountMsg(p, MsgTab) = 0

(***************************************************************************)
(* C2: suppression is whole-file.  If the contents hold the directive of a *)
(* check anywhere, no line diagnostic of that check is reported for any    *)
(* line, the lines before the directive included; if they hold neither     *)
(* form, every line that satisfies the condition gets exactly one          *)
(* diagnostic of the check with its line number, and no other line any.    *)
(***************************************************************************)
C2_WholeFileSuppression ==
    \A p \in Completed : \A c \in Suppressible :
        IF HasDirective(tree[p].data, c.name)
        THEN CountMsg(p, c.msg) = 0
        ELSE LET ls == LinesOf(p)
             IN  /\ \A k \in 1..Len(ls) :
                        Count(p, k, c.msg) = IF Hit(c, ls[k]) THEN 1 ELSE 0
                 /\ CountMsg(p, c.msg) = Cardinality({k \in 1..Len(ls) : Hit(c, ls[k])})

\* A hit on line 1, the directive on line 2, and no diagnostic of the check.
C2_Witness ==
    \E p \in Completed : \E c \in Suppressible :
        LET ls == LinesOf(p)
        IN  /\ Len(ls) >= 2
            /\ Hit(c, ls[1])
            /\ HasDirective(ls[2], c.name)
            /\ ~HasDirective(ls[1], c.name)
            /\ CountMsg(p, c.msg) = 0

(***************************************************************************)
(* The URL-comment grammar, stated on the token sequence of a line.        *)
(***************************************************************************)
IsMarker(t) == t = Slash2 \/ t = Slash3 \/ t = Slash2Bang

IsLabel(t) ==
    Len(t) >= 4 /\ t[1] = "[" /\ t[Len(t) - 1] = "]" /\ t[Len(t)] = ":"

IsUrl(t) ==
    \/ Len(t) >= 7 /\ SubSeq(t, 1, 7) = Http
    \/ Len(t) >= 8 /\ SubSeq(t, 1, 8) = Https

IsUrl2(t) == IsUrl(t) \/ (Len(t) >= 3 /\ SubSeq(t, 1, 3) = DotDotSlash)

MarkerUrl(toks) == Len(toks) = 2 /\ IsMarker(toks[1]) /\ IsUrl(toks[2])

MarkerLabelUrl(toks) ==
    Len(toks) = 3 /\ IsMarker(toks[1]) /\ IsLabel(toks[2]) /\ IsUrl2(toks[3])

UrlGrammar(toks) == MarkerUrl(toks) \/ MarkerLabelUrl(toks)

Tokens(line) == split_whitespace(line)

(***************************************************************************)
(* C3 (as amended): in a file with no linelength directive a line is       *)
(* reported as "line longer than 100 chars" if and only if it has more     *)
(* than 100 characters and does not match the URL-comment grammar.  A line *)
(* of at most 100 characters is never flagged; a longer line that is a     *)
(* marker plus a URL, or a marker, a link label and a URL, is never        *)
(* flagged; a longer line with any other token is flagged.                 *)
(***************************************************************************)
C3_LengthIffLongAndNotUrl ==
    \A p \in Completed :
        ~HasDirective(tree[p].data, CheckLinelength) =>
            LET ls == LinesOf(p)
            IN  \A k \in 1..Len(ls) :
                    Count(p, k, MsgLength) =
                        IF Len(ls[k]) > COLS /\ ~UrlGrammar(Tokens(ls[k])) THEN 1 ELSE 0

\* A line over 100 characters with a link label before the URL, not flagged.
C3_Witness ==
    \E p \in Completed : \E k \in 1..Len(LinesOf(p)) :
        /\ ~HasDirective(tree[p].data, CheckLinelength)
        /\ Len(LinesOf(p)[k]) > COLS
        /\ MarkerLabelUrl(Tokens(LinesOf(p)[k]))
        /\ Count(p, k, MsgLength) = 0

\* C3 as stated: every line over 100 characters with a token other than
\* the marker and the URL, before or after the URL, is flagged.
C3_AsStated ==
    \A p \in Completed :
        ~HasDirective(tree[p].data, CheckLinelength) =>
            \A k \in 1..Len(LinesOf(p)) :
                LET l == LinesOf(p)[k]
                    toks == Tokens(l)
                IN  /\ Len(l) <= COLS => Count(p, k, MsgLength) = 0
                    /\ Len(l) > COLS /\ MarkerUrl(toks) => Count(p, k, MsgLength) = 0
                    /\ Len(l) > COLS /\ ~MarkerUrl(toks)
                         /\ (\E j \in 1..Len(toks) : IsUrl(toks[j]))
                         => Count(p, k, MsgLength) = 1

(***************************************************************************)
(* C4: line_is_url is true of a line if and only if its token sequence is  *)
(* [marker, url] or [marker, label, url2]; every other sequence (empty,    *)
(* marker alone, marker and label, `../` right after the marker, a token   *)
(* after the URL) is rejected.                                             *)
(***************************************************************************)
C4_LineIsUrlGrammar ==
    \A k \in 1..Len(lines) : line_is_url(lines[k]) <=> UrlGrammar(Tokens(lines[k]))

\* The loop has scanned a long line of the form marker, label, `../` URL
\* and has not flagged it.
C4_Witness ==
    /\ pc = "scan"
    /\ i >= 1
    /\ Len(lines[i]) > COLS
    /\ MarkerLabelUrl(Tokens(lines[i]))
    /\ SubSeq(Tokens(lines[i])[3], 1, 3) = DotDotSlash
    /\ line_is_url(lines[i])
    /\ skip_length = Deny
    /\ Count(fi, i, MsgLength) = 0

TrailingEmpty(segs) ==
    CHOOSE n \in 0..Len(segs) :
        /\ \A j \in (Len(segs) - n + 1)..Len(segs) : segs[j] = <<>>
        /\ n = Len(segs) \/ segs[Len(segs) - n] # <<>>

CountTooMany(p) ==
    Cardinality({k \in 1..Len(out) :
                    out[k].path = p /\ out[k].msg[1] = MsgTooManyNewlines(0)[1]})

(***************************************************************************)
(* C5: the trailing-newline boundary.  With t the number of empty segments *)
(* at the end of the contents split on the newline character: t = 1 gives  *)
(* no trailing-newline diagnostic, t = 0 gives "missing trailing newline", *)
(* t >= 2 gives "too many trailing newlines (t)".                          *)
(***************************************************************************)
C5_TrailingNewlineBoundary ==
    \A p \in Completed :
        LET t == TrailingEmpty(LinesOf(p))
        IN  /\ t = 1 => CountMsg(p, MsgMissingNewline) = 0 /\ CountTooMany(p) = 0
            /\ t = 0 => CountMsg(p, MsgMissingNewline) = 1 /\ CountTooMany(p) = 0
            /\ t >= 2 => /\ CountMsg(p, MsgMissingNewline) = 0
                         /\ CountTooMany(p) = 1
                         /\ Count(p, NoLine, MsgTooManyNewlines(t)) = 1

C5_Witness ==
    \E p \in Completed :
        /\ TrailingEmpty(LinesOf(p)) = 3
        /\ Len(LinesOf(p)) > 3
        /\ Count(p, NoLine, MsgTooManyNewlines(3)) = 1

ScenarioData == LineFoo \o <<"\n">> \o LineTab \o <<"\n">> \o <<"\n">>

(***************************************************************************)
(* C6 (as amended): a file with no directives whose content is             *)
(* "foo\n\tbar\n\n" yields exactly two violations, the tab character at    *)
(* line 2 and "too many trailing newlines (2)".                            *)
(***************************************************************************)
C6_ScenarioTabAndTooMany ==
    \A p \in Completed :
        tree[p].data = ScenarioData =>
            DiagsOf(p) = <<[path |-> p, line |-> 2, msg |-> MsgTab],
                           [path |-> p, line |-> NoLine, msg |-> MsgTooManyNewlines(2)]>>

C6_Witness ==
    \E p \in Completed : tree[p].data = ScenarioData /\ Len(DiagsOf(p)) = 2

\* C6 as stated: the only violation is the tab character at line 2.
C6_AsStated ==
    \A p \in Completed :
        tree[p].data = ScenarioData =>
            DiagsOf(p) = <<[path |-> p, line |-> 2, msg |-> MsgTab]>>

(***************************************************************************)
(* C7: a zero-byte file reports exactly one "empty file" violation and no  *)
(* line-numbered violation.                                                *)
(***************************************************************************)
C7_EmptyFile ==
    \A p \in Completed :
        tree[p].data = <<>> =>
            /\ Count(p, NoLine, MsgEmptyFile) = 1
            /\ CountMsg(p, MsgEmptyFile) = 1
            /\ \A k \in 1..Len(out) : out[k].path = p => out[k].line = NoLine

C7_Witness ==
    \E p \in Completed : tree[p].data = <<>> /\ CountMsg(p, MsgEmptyFile) = 1

C8_DoctestReported ==
    \A p \in Completed :
        LET ls == LinesOf(p)
        IN  \A k \in 1..Len(ls) :
                (ends_with(ls[k], FenceIgnore) \/ ends_with(ls[k], FenceRustIgnore))
                => Count(p, k, UNEXPLAINED_IGNORE_DOCTEST_INFO) = 1

C8_StatusKept ==
    (Scanning /\ cond_ignore_doctest(lines[i + 1])) =>
        /\ skip_cr' # skip_cr => cond_cr(lines[i + 1])
        /\ skip_tab' # skip_tab => cond_tab(lines[i + 1])
        /\ skip_length' # skip_length => cond_length(lines[i + 1])
        /\ skip_end_whitespace' # skip_end_whitespace => cond_end_whitespace(lines[i + 1])
        /\ skip_copyright' # skip_copyright => cond_copyright(lines[i + 1])

(***************************************************************************)
(* C8: a line ending in an ignore fence always yields the unexplained-     *)
(* ignore-doctest diagnostic at that line, whatever directives the file    *)
(* holds and whatever its name, and the scan of such a line changes a      *)
(* suppression status only if the line satisfies that check's condition.   *)
(***************************************************************************)
C8_DoctestNeverSuppressed == []C8_DoctestReported /\ [][C8_StatusKept]_vars

\* All five directives, the checker's own file name, and the diagnostic.
C8_Witness ==
    \E p \in Completed : \E k \in 1..Len(LinesOf(p)) :
        /\ \A c \in Suppressible : HasDirective(tree[p].data, c.name)
        /\ tree[p].name = StyleRs
        /\ ends_with(LinesOf(p)[k], FenceIgnore)
        /\ Count(p, k, UNEXPLAINED_IGNORE_DOCTEST_INFO) = 1
        /\ \A c \in Suppressible : CountMsg(p, c.unnecessary) = 1

C9_Step ==
    /\ bad => bad'
    /\ Len(out') > Len(out) => bad'
    /\ out' = out => bad' = bad

(***************************************************************************)
(* C9: the flag is monotonic over the run: a step never clears it, every   *)
(* step that reports a diagnostic leaves it set, and a step that reports   *)
(* none (a suppressed hit included) leaves it as it was.                   *)
(***************************************************************************)
C9_BadMonotonic == [][C9_Step]_vars

\* A run is over with the flag clear although a tab was hit under a directive.
C9_Witness ==
    /\ pc = "done"
    /\ ~bad
    /\ \E p \in Completed :
          /\ HasDirective(tree[p].data, CheckTab)
          /\ contains(tree[p].data, <<"\t">>)
          /\ DiagsOf(p) = <<>>

FileLevel(d) == d.line = NoLine

LineOrder(ds) ==
    \A a, b \in 1..Len(ds) :
        a < b /\ ~FileLevel(ds[a]) /\ ~FileLevel(ds[b]) => ds[a].line <= ds[b].line

(***************************************************************************)
(* C10 (as amended): within a file the checks of line i complete before    *)
(* line i+1 is scanned, and all line checks complete before any file-level *)
(* check other than the empty-file check, which runs before the first      *)
(* line is scanned.  The line-numbered diagnostics of a file appear in     *)
(* non-decreasing line order, and no file-level diagnostic other than      *)
(* "empty file" precedes a line check of the same file.                    *)
(***************************************************************************)
C10_OrderExceptEmptyFile ==
    /\ \A p \in 1..Len(tree) :
          LET ds == DiagsOf(p)
          IN  /\ LineOrder(ds)
              /\ \A a, b \in 1..Len(ds) :
                    a < b /\ FileLevel(ds[a]) /\ ds[a].msg # MsgEmptyFile
                        => FileLevel(ds[b])
    /\ Scanning =>
          LET ds == DiagsOf(fi)
          IN  \A k \in 1..Len(ds) :
                  \/ ds[k].line \in 1..i
                  \/ FileLevel(ds[k]) /\ ds[k].msg = MsgEmptyFile

\* Two line diagnostics at different lines, then a file-level diagnostic.
C10_Witness ==
    \E p \in Completed :
        /\ Len(DiagsOf(p)) >= 3
        /\ DiagsOf(p)[1].line = 1
        /\ DiagsOf(p)[2].line = 2
        /\ FileLevel(DiagsOf(p)[3])

\* C10 as stated: no file-level diagnostic, "empty file" included, is
\* emitted while a line of the file is still to be checked.
C10_AsStated ==
    /\ \A p \in 1..Len(tree) :
          LET ds == DiagsOf(p)
          IN  /\ LineOrder(ds)
              /\ \A a, b \in 1..Len(ds) : a < b /\ FileLevel(ds[a]) => FileLevel(ds[b])
    /\ Scanning => \A k \in 1..Len(out) : out[k].path = fi => ~FileLevel(out[k])

\* Every checked file of the tree can be opened and read.
AllReadable == \A p \in 1..Len(tree) : is_checked(tree[p].name) => tree[p].readable

\* Within a file the lines are scanned one after the other.
C11_LineStep == pc = "scan" /\ pc' = "scan" => i' = i + 1 /\ lines' = lines /\ fi' = fi

\* The walker moves to the next file only, and leaves a checked file only
\* after the last line of its contents has been scanned.
C11_FileStep ==
    fi' # fi =>
        /\ fi' = fi + 1
        /\ pc = "scan" =>
              /\ i = Len(lines)
              /\ lines = split(tree[fi].data, "\n")
              /\ pc' = "walk"

C12_Extensions ==
    {<<".","r","s">>, <<".","p","y">>, <<".","j","s">>, <<".","s","h">>,
     <<".","c">>, <<".","c","p","p">>, <<".","h">>}

C12_Checked(n) ==
    /\ \E e \in C12_Extensions :
          Len(n) >= Len(e) /\ SubSeq(n, Len(n) - Len(e) + 1, Len(n)) = e
    /\ ~(Len(n) >= 2 /\ n[1] = "." /\ n[2] = "#")

\* The step the closure takes on the file the walker yields.
C12_Step ==
    pc = "walk" /\ fi <= Len(tree) =>
        IF C12_Checked(tree[fi].name)
        THEN /\ fi' = fi
             /\ pc' \in {"scan", "panic"}
             /\ pc' = "scan" => contents' = tree[fi].data
        ELSE /\ fi' = fi + 1
             /\ pc' = "walk"
             /\ out' = out
             /\ bad' = bad
             /\ contents' = contents

(***************************************************************************)
(* C12: a file is checked if and only if its name ends with one of `.rs`,  *)
(* `.py`, `.js`, `.sh`, `.c`, `.cpp`, `.h` and does not begin with `.#`.   *)
(* For every other file the closure returns before reading it: it reports  *)
(* no diagnostic, leaves the flag as it was and leaves the shared contents *)
(* buffer as it was.                                                       *)
(***************************************************************************)
C12_FileFilter == [][C12_Step]_vars

\* A lock file of a Rust source was passed over after a checked file: the
\* buffer still holds the contents of the checked file and the flag is set.
C12_Witness ==
    /\ pc = "walk"
    /\ fi = 3
    /\ C12_Checked(tree[1].name)
    /\ starts_with(tree[2].name, DotHash)
    /\ ends_with(tree[2].name, extensions[1])
    /\ contents = tree[1].data
    /\ contents # <<>>
    /\ bad
    /\ DiagsOf(2) = <<>>

\* The lines of file p, by number, that get a diagnostic with message m.
LinesWith(p, m) == {k \in 1..Len(LinesOf(p)) : Count(p, k, m) = 1}

(***************************************************************************)
(* C13: in a checked file not named `style.rs`, whatever directives it     *)
(* holds, a line is reported as "TODO is deprecated; use FIXME" if and     *)
(* only if it contains `TODO`, and as "XXX is deprecated; use FIXME" if    *)
(* and only if it contains both `//` and ` XXX`, in either order.  In a    *)
(* file named `style.rs` neither is reported, and every other rule applies *)
(* to it as to any other file.                                             *)
(***************************************************************************)
C13_TodoXxx ==
    \A p \in Completed :
        LET ls == LinesOf(p)
            exempt == tree[p].name = <<"s","t","y","l","e",".","r","s">>
            todo == {k \in 1..Len(ls) : ~exempt /\ contains(ls[k], <<"T","O","D","O">>)}
            xxx == {k \in 1..Len(ls) :
                       /\ ~exempt
                       /\ contains(ls[k], <<"/","/">>)
                       /\ contains(ls[k], <<" ","X","X","X">>)}
        IN  /\ LinesWith(p, MsgTodo) = todo
            /\ CountMsg(p, MsgTodo) = Cardinality(todo)
            /\ LinesWith(p, MsgXxx) = xxx
            /\ CountMsg(p, MsgXxx) = Cardinality(xxx)
            /\ exempt =>
                  /\ \A c \in Suppressible :
                        LinesWith(p, c.msg) =
                            {k \in 1..Len(ls) :
                                ~HasDirective(tree[p].data, c.name) /\ Hit(c, ls[k])}
                  /\ LinesWith(p, UNEXPLAINED_IGNORE_DOCTEST_INFO) =
                        {k \in 1..Len(ls) : cond_ignore_doctest(ls[k])}

\* A line of style.rs with TODO, `//`, ` XXX` and a tab: the tab is reported,
\* the two markers are not.
C13_Witness ==
    \E p \in Completed :
        /\ tree[p].name = StyleRs
        /\ contains(LinesOf(p)[1], Todo)
        /\ contains(LinesOf(p)[1], Slash2 \o SpaceXXX)
        /\ Count(p, 1, MsgTab) = 1
        /\ CountMsg(p, MsgTodo) = 0
        /\ CountMsg(p, MsgXxx) = 0

\* A step of the line loop: line index i has just been scanned.
LineScanned == pc = "scan" /\ i' = i + 1 /\ fi' = fi

\* What the scan of one line does to the flag and the counter.
C14_Step ==
    LineScanned =>
        LET line == lines[i + 1]
        IN  /\ leading_new_lines' = (leading_new_lines \/ (line = <<>> /\ i = 0))
            /\ trailing_new_lines' = IF line = <<>> THEN trailing_new_lines + 1 ELSE 0

\* "leading newline" is a file-level diagnostic of the end of the file,
\* reported once if and only if line 0 is empty.
C14_Leading ==
    /\ \A p \in Completed :
          /\ CountMsg(p, MsgLeadingNewline) = IF LinesOf(p)[1] = <<>> THEN 1 ELSE 0
          /\ Count(p, NoLine, MsgLeadingNewline) = CountMsg(p, MsgLeadingNewline)
    /\ pc = "scan" => CountMsg(fi, MsgLeadingNewline) = 0

(***************************************************************************)
(* C14 (as amended): empty-line tracking.  When the first line (index 0)   *)
(* of a file is empty the scan marks the leading-blank flag and also       *)
(* increments the running count of consecutive trailing empties; the count *)
(* is incremented for every empty line, the one at index 0 included, and   *)
(* is reset to 0 by any non-empty line.  "leading newline" is reported     *)
(* once, at file end, if and only if line 0 is empty.                      *)
(***************************************************************************)
C14_EmptyLineTracking == [][C14_Step]_vars /\ []C14_Leading

\* The empty first line of a longer file has been scanned: the flag is set
\* and the line is counted.
C14_Witness ==
    /\ pc = "scan"
    /\ i = 1
    /\ Len(lines) > 1
    /\ lines[1] = <<>>
    /\ leading_new_lines
    /\ trailing_new_lines = 1

\* C14 as stated: an empty line at index 0 marks the flag and is not
\* counted; only the empty lines at index 1 or later are.
C14_AsStated ==
    /\ [][LineScanned =>
            LET line == lines[i + 1]
            IN  /\ leading_new_lines' = (leading_new_lines \/ (line = <<>> /\ i = 0))
                /\ trailing_new_lines' =
                      IF line = <<>>
                      THEN (IF i = 0 THEN trailing_new_lines ELSE trailing_new_lines + 1)
                      ELSE 0]_vars
    /\ []C14_Leading

\* The status of a suppressible check in the current file.
StatusOf(c) ==
    CASE c.name = CheckCr -> skip_cr
      [] c.name = CheckTab -> skip_tab
      [] c.name = CheckLinelength -> skip_length
      [] c.name = CheckEndWhitespace -> skip_end_whitespace
      [] c.name = CheckCopyright -> skip_copyright

\* The lines scanned so far that satisfy the condition of check c.
HitsSoFar(c) == {k \in 1..i : Hit(c, lines[k])}

\* During the scan a status is Deny without the directive, and with it
\* Ignore(b) where b tells whether a scanned line has hit the check.
C15_Status ==
    pc = "scan" =>
        \A c \in Suppressible :
            StatusOf(c) = IF HasDirective(contents, c.name)
                          THEN Ignore(HitsSoFar(c) # {})
                          ELSE Deny

\* The only change of a status in the line loop.
C15_Step ==
    LineScanned =>
        \A c \in Suppressible :
            StatusOf(c)' # StatusOf(c) =>
                /\ StatusOf(c) = Ignore(FALSE)
                /\ StatusOf(c)' = Ignore(TRUE)
                /\ Hit(c, lines[i + 1])
                /\ HitsSoFar(c) = {}

(***************************************************************************)
(* C15: each of the five statuses follows a one-way state machine through  *)
(* the scan of a file.  It starts as Deny when the directive is absent and *)
(* as Ignore(false) when it is present; Deny stays Deny for the whole      *)
(* file; the only transition is Ignore(false) to Ignore(true), taken at    *)
(* the first line that satisfies the condition of the check; Ignore(true)  *)
(* never reverts; a hit on one check never changes the status of another.  *)
(***************************************************************************)
C15_OneWayStatus == []C15_Status /\ [][C15_Step]_vars

\* Two hits of a check have been scanned under its directive while another
\* check, with no directive, is still Deny.
C15_Witness ==
    /\ pc = "scan"
    /\ \E c, d \in Suppressible :
          /\ StatusOf(c) = Ignore(TRUE)
          /\ Cardinality(HitsSoFar(c)) >= 2
          /\ StatusOf(d) = Deny

\* The rules in the order of the claim, each with its message and whether
\* it reports on the line: its condition holds and it is not suppressed.
RuleOrder(fname, data, line) ==
    <<[msg |-> MsgLength,
       on |-> cond_length(line) /\ ~HasDirective(data, CheckLinelength)],
      [msg |-> MsgTab, on |-> cond_tab(line) /\ ~HasDirective(data, CheckTab)],
      [msg |-> MsgEndWhitespace,
       on |-> cond_end_whitespace(line) /\ ~HasDirective(data, CheckEndWhitespace)],
      [msg |-> MsgCr, on |-> cond_cr(line) /\ ~HasDirective(data, CheckCr)],
      [msg |-> MsgTodo, on |-> cond_todo(fname, line)],
      [msg |-> MsgXxx, on |-> cond_xxx(fname, line)],
      [msg |-> MsgCopyright,
       on |-> cond_copyright(line) /\ ~HasDirective(data, CheckCopyright)],
      [msg |-> UNEXPLAINED_IGNORE_DOCTEST_INFO, on |-> cond_ignore_doctest(line)],
      [msg |-> LLVM_UNREACHABLE_INFO, on |-> cond_llvm_unreachable(fname, line)]>>

\* The diagnostics of line number n of file p, as the claim gives them.
LineDiags(p, n, fname, data, line) ==
    LET on == SelectSeq(RuleOrder(fname, data, line), LAMBDA r : r.on)
    IN  [k \in 1..Len(on) |-> [path |-> p, line |-> n, msg |-> on[k].msg]]

\* The diagnostics a step has added.
Added == SubSeq(out', Len(out) + 1, Len(out'))

C16_Step ==
    LineScanned =>
        /\ Len(out') >= Len(out)
        /\ SubSeq(out', 1, Len(out)) = out
        /\ Added = LineDiags(fi, i + 1, tree[fi].name, tree[fi].data, lines[i + 1])

(***************************************************************************)
(* C16: the rules are evaluated independently and in a fixed order on each *)
(* line.  The diagnostics emitted for line index i all carry line number   *)
(* i+1, hold each rule at most once however many tabs or CRs the line has, *)
(* hold every unsuppressed rule whose condition holds (a line ending in a  *)
(* tab yields both "tab character" and "trailing whitespace"), and appear  *)
(* in the order line length, tab, trailing whitespace, CR, TODO, XXX,      *)
(* copyright, unexplained ignore doctest, llvm_unreachable.                *)
(***************************************************************************)
C16_FixedOrder == [][C16_Step]_vars

\* The first line of a C++ file ends in a tab and has drawn eight
\* diagnostics, "tab character" and "trailing whitespace" among them.
C16_Witness ==
    /\ pc = "scan"
    /\ i = 1
    /\ ends_with(lines[1], <<"\t">>)
    /\ Len(out) = 8
    /\ out[2] = [path |-> fi, line |-> 1, msg |-> MsgTab]
    /\ out[3] = [path |-> fi, line |-> 1, msg |-> MsgEndWhitespace]
    /\ out[8] = [path |-> fi, line |-> 1, msg |-> LLVM_UNREACHABLE_INFO]

\* The closure run on one file as the first of a run: nothing printed, the
\* statuses of the file's own directives, the counters of its own lines.
RECURSIVE ScanAll(_, _, _, _)
ScanAll(s, fname, ls, k) ==
    IF k > Len(ls) THEN s
    ELSE ScanAll(scan_rules(s, 1, fname, k - 1, ls[k]), fname, ls, k + 1)

Alone(fname, data) ==
    LET ls == split(data, "\n")
        s0 == [bad |-> FALSE, out |-> <<>>,
               skip_cr |-> contains_ignore_directive(data, CheckCr),
               skip_tab |-> contains_ignore_directive(data, CheckTab),
               skip_length |-> contains_ignore_directive(data, CheckLinelength),
               skip_end_whitespace |-> contains_ignore_directive(data, CheckEndWhitespace),
               skip_copyright |-> contains_ignore_directive(data, CheckCopyright)]
        s1 == ScanAll(empty_file_check(s0, 1, data), fname, ls, 1)
    IN  eof_checks(s1, 1, ls[1] = <<>>, TrailingEmpty(ls)).out

\* Diagnostics without the place of the file in the run.
Strip(ds) == [k \in 1..Len(ds) |-> [line |-> ds[k].line, msg |-> ds[k].msg]]

\* What holds of the files checked so far.
C17_Alone ==
    /\ \A p \in Completed :
          Strip(DiagsOf(p)) = Strip(Alone(tree[p].name, tree[p].data))
    /\ \A p, q \in Completed :
          tree[p] = tree[q] => Strip(DiagsOf(p)) = Strip(DiagsOf(q))
    /\ \A p \in 1..(fi - 1) : p \notin Completed => DiagsOf(p) = <<>>
    /\ pc = "scan" => contents = tree[fi].data

\* A second pass over the same file leaves the flag as the first left it.
C17_SecondPass == Len(tree) = 2 /\ tree[1] = tree[2] /\ fi = 2 => bad' = bad

(***************************************************************************)
(* C17: the diagnostics emitted for a file are determined only by the name *)
(* and the contents of the file.  The contents buffer is emptied and the   *)
(* five statuses and both counters are initialised anew for every file, so *)
(* the diagnostics of a file are those of the file checked on its own,     *)
(* whatever files and violations came before it; checking the same file a  *)
(* second time yields the same diagnostics and the same flag.              *)
(***************************************************************************)
C17_FileAlone == []C17_Alone /\ [][C17_SecondPass]_vars

\* After a file whose tab directive was used, a file with a tab and no
\* directive: its tab is reported.
C17_Witness ==
    /\ pc = "done"
    /\ Completed = {1, 2}
    /\ HasDirective(tree[1].data, CheckTab)
    /\ contains(tree[1].data, <<"\t">>)
    /\ ~HasDirective(tree[2].data, CheckTab)
    /\ Count(2, 1, MsgTab) = 1
    /\ bad

\* The content is made of newline characters only, at least one.
OnlyNewlines(data) == data # <<>> /\ \A k \in 1..Len(data) : data[k] = "\n"

\* The counter during the scan of a file, and after its last line.
C18_Counter ==
    pc = "scan" => trailing_new_lines = TrailingEmpty(SubSeq(lines, 1, i))

\* The trailing-newline outcome of a checked file.
C18_Outcome ==
    \A p \in Completed :
        LET data == tree[p].data
            t == TrailingEmpty(LinesOf(p))
            missing == CountMsg(p, MsgMissingNewline)
        IN  /\ missing + CountTooMany(p) <= 1
            /\ missing = 1 <=> (data # <<>> /\ data[Len(data)] # "\n")
            /\ CountTooMany(p) = 1 <=> t >= 2
            /\ CountTooMany(p) = Count(p, NoLine, MsgTooManyNewlines(t))
            /\ OnlyNewlines(data) =>
                  /\ CountMsg(p, MsgLeadingNewline) = 1
                  /\ Count(p, NoLine, MsgTooManyNewlines(Len(data) + 1)) = 1

(***************************************************************************)
(* C18: for every checked file exactly one trailing-newline outcome holds  *)
(* (no diagnostic, "missing trailing newline", or "too many trailing       *)
(* newlines (n)"), and after the last line has been scanned the counter    *)
(* equals the length of the maximal run of empty segments at the end of    *)
(* the content split on the newline character, the segment at index 0      *)
(* included.  Hence "missing trailing newline" is reported if and only if  *)
(* the content is non-empty and does not end with a newline, and a content *)
(* made only of k >= 1 newline characters reports both "leading newline"   *)
(* and "too many trailing newlines (k+1)".                                 *)
(***************************************************************************)
C18_TrailingOutcome == C18_Counter /\ C18_Outcome

\* A content of two newline characters: "leading newline" and "too many
\* trailing newlines (3)".
C18_Witness ==
    \E p \in Completed :
        /\ tree[p].data = <<"\n", "\n">>
        /\ DiagsOf(p) = <<[path |-> p, line |-> NoLine, msg |-> MsgLeadingNewline],
                          [path |-> p, line |-> NoLine, msg |-> MsgTooManyNewlines(3)]>>

\* The scan of a zero-byte file: one empty line at index 0, every status
\* Deny, "empty file" printed before the line, the counter at 1 after it.
C19_Scan ==
    pc = "scan" /\ contents = <<>> =>
        /\ lines = << <<>> >>
        /\ \A c \in Suppressible : StatusOf(c) = Deny
        /\ DiagsOf(fi) = <<[path |-> fi, line |-> NoLine, msg |-> MsgEmptyFile]>>
        /\ i = 0 => trailing_new_lines = 0 /\ ~leading_new_lines
        /\ i = 1 => trailing_new_lines = 1 /\ leading_new_lines

(***************************************************************************)
(* C19: a zero-byte file is still line-scanned, as a single empty line at  *)
(* index 0, after the "empty file" report.  Its complete diagnostic        *)
(* sequence is exactly "empty file" followed by "leading newline": the     *)
(* trailing counter ends at 1 (no trailing-newline diagnostic), every      *)
(* status is Deny (no ignoring-unnecessarily diagnostic) and no            *)
(* line-numbered diagnostic is emitted.                                    *)
(***************************************************************************)
C19_ZeroByteFile ==
    /\ C19_Scan
    /\ \A p \in Completed :
          tree[p].data = <<>> =>
              DiagsOf(p) = <<[path |-> p, line |-> NoLine, msg |-> MsgEmptyFile],
                             [path |-> p, line |-> NoLine, msg |-> MsgLeadingNewline]>>

\* A zero-byte file checked after a file with a used tab directive.
C19_Witness ==
    /\ 2 \in Completed
    /\ tree[2].data = <<>>
    /\ HasDirective(tree[1].data, CheckTab)
    /\ Len(DiagsOf(2)) = 2
    /\ trailing_new_lines = 1
    /\ skip_tab = Deny

====
